---- MODULE Spec2Model ----
(***************************************************************************)
(* Secret Santa server: the assignment engine (services/secretSanta.ts),   *)
(* the three collections it works on (User, Event, Assignment) and the     *)
(* event handlers that change what it reads (createEvent, updateEvent,     *)
(* joinEvent).                                                             *)
(***************************************************************************)
EXTENDS Integers, Sequences, FiniteSets, TLC

\* ------------------------------------------------------------------ bounds
\* Registered users (registration itself is not modelled).
MaxUsers == 3
\* Events that createEvent may create: under Spec, which tries every store
\* fault and every field of an event, and under SpecEvents, which has the
\* users move between events.
MaxEventsSpec == 1
MaxEvents == 2
\* Attempt bound handed to generateDerangement; the source's default is 1000.
MaxAttempts == 2
\* Invocations of assignSecretSanta that may run at the same time.
MaxRuns == 2

UserIds == 1..MaxUsers
EventIds == 1..MaxEvents
RunIds == 1..MaxRuns
\* IUser.eventId is optional: 0 stands for "no event".
NoEvent == 0
\* An identifier that matches no document of the Event collection.
MissingEventId == MaxEvents + 1

EventStatus == {"draft", "open", "closed", "assigned"}
Names == {"Party", "Gala"}
Budgets == {50}
Deadlines == {1}
\* Values of `new Date()` read by joinEvent: before and after the deadline.
Clock == {0, 2}

\* Store operations of assignSecretSanta that may throw. "abortTransaction"
\* is the commit failing and the abortTransaction of the catch block, called
\* on a transaction whose commit was already asked for, throwing as well.
Faults ==
  {"none", "findById", "find", "deleteMany", "insertMany", "save", "commit",
   "abortTransaction"}

ErrNotFound == "Event not found"
ErrTooFew == "Need at least 2 participants for Secret Santa"
ErrStore == "store error"
ErrDuplicate == "E11000 duplicate key"
ErrAbort == "Cannot call abortTransaction after calling commitTransaction"

VARIABLES
  users,        \* User collection: user id -> eventId (NoEvent when unset)
  events,       \* Event collection: event id -> document, for the ids that exist
  assignments,  \* Assignment collection: set of rows
  last,         \* the last completed call: operation, arguments, result
  runs          \* assignSecretSanta invocations in flight, with their transactions

vars == <<users, events, assignments, last, runs>>

\* ------------------------------------------------------- pure helpers
\* Swap of the elements at the 0-based indices i and j.
Swap(s, i, j) ==
  [k \in 1..Len(s) |-> IF k = i + 1 THEN s[j + 1] ELSE IF k = j + 1 THEN s[i + 1] ELSE s[k]]

\* The values Math.floor(Math.random() * (i + 1)) can take for each loop
\* index i = n-1 .. 1 of one shuffleArray call on n elements.
RandomDraws(n) ==
  {js \in [1..(n - 1) -> 0..(n - 1)] : \A i \in 1..(n - 1) : js[i] <= i}

RECURSIVE ShuffleFrom(_, _, _)
ShuffleFrom(shuffled, i, js) ==
  IF i > 0 THEN ShuffleFrom(Swap(shuffled, i, js[i]), i - 1, js) ELSE shuffled

ShuffleArray(array, js) == ShuffleFrom(array, Len(array) - 1, js)

IsDerangement(original, shuffled) ==
  \A i \in 1..Len(original) : original[i] # shuffled[i]

\* Number.prototype.toString: the decimal digits of a non-negative integer.
RECURSIVE NumToString(_)
NumToString(n) ==
  IF n < 0 THEN <<"-">> \o NumToString(0 - n)
  ELSE IF n < 10 THEN <<n>> ELSE Append(NumToString(n \div 10), n % 10)

\* Array.prototype.indexOf: 0-based index of the first occurrence, -1 if none.
IndexOf(array, item) ==
  IF \E k \in 1..Len(array) : array[k] = item
  THEN (CHOOSE k \in 1..Len(array) :
          array[k] = item /\ \A m \in 1..(k - 1) : array[m] # item) - 1
  ELSE -1

OriginalIndices(array) == [i \in 1..Len(array) |-> NumToString(i - 1)]

\* The indices the loop hands to isDerangement: computed from `array`.
ShuffledIndices(array, shuffled) ==
  [i \in 1..Len(array) |-> NumToString(IndexOf(array, array[i]))]

\* Mutant of CyclicShift: the first element is moved to the end.
CyclicShiftLeft(array) == SubSeq(array, 2, Len(array)) \o <<array[1]>>

\* Mutant of CyclicShift: the array is returned as it came.
CyclicShiftNone(array) == array

\* result.pop(); result.unshift(last)
CyclicShift(array) == <<array[Len(array)]>> \o SubSeq(array, 1, Len(array) - 1)

RECURSIVE DerangementLoop(_, _, _, _)
DerangementLoop(array, maxAttempts, draws, attempts) ==
  IF attempts < maxAttempts
  THEN LET shuffled == ShuffleArray(array, draws[attempts + 1])
       IN IF IsDerangement(OriginalIndices(array), ShuffledIndices(array, shuffled))
          THEN [error |-> "none", result |-> shuffled, path |-> "shuffle", attempts |-> attempts]
          ELSE DerangementLoop(array, maxAttempts, draws, attempts + 1)
  ELSE [error |-> "none", result |-> CyclicShift(array), path |-> "fallback", attempts |-> attempts]

\* Mutant of GenerateDerangement: two elements go through the loop as well.
GenerateDerangementNoSwap(array, maxAttempts, draws) ==
  IF Len(array) < 2
  THEN [error |-> ErrTooFew, result |-> <<>>, path |-> "throw", attempts |-> 0]
  ELSE DerangementLoop(array, maxAttempts, draws, 0)

\* generateDerangement; draws[k] are the random values of the k-th shuffle.
\* Besides the returned array the record tells which path returned it.
GenerateDerangement(array, maxAttempts, draws) ==
  IF Len(array) < 2
  THEN [error |-> ErrTooFew, result |-> <<>>, path |-> "throw", attempts |-> 0]
  ELSE IF Len(array) = 2
  THEN [error |-> "none", result |-> <<array[2], array[1]>>, path |-> "swap", attempts |-> 0]
  ELSE DerangementLoop(array, maxAttempts, draws, 0)

\* --------------------------------------------------------- collections
RECURSIVE AscendingSeq(_)
AscendingSeq(S) ==
  IF S = {} THEN <<>>
  ELSE LET m == CHOOSE x \in S : \A y \in S : x <= y
       IN <<m>> \o AscendingSeq(S \ {m})

\* User.find({ eventId }): the users linked to the event, in natural
\* (insertion, here identifier) order.
Find(us, eventId) == AscendingSeq({u \in DOMAIN us : us[u] = eventId})

SeqToSet(seq) == {seq[i] : i \in 1..Len(seq)}

\* The rows of one event.
RowsOf(coll, eventId) == {r \in coll : r.eventId = eventId}

\* Assignment.deleteMany({ eventId })
DeleteMany(coll, eventId) == {r \in coll : r.eventId # eventId}

\* The three unique compound indexes of the Assignment collection.
UniqueIndexesHold(coll) ==
  \A r1, r2 \in coll :
    (r1 # r2 /\ r1.eventId = r2.eventId) =>
      /\ r1.receiverNumber # r2.receiverNumber
      /\ r1.santaUserId # r2.santaUserId
      /\ r1.receiverUserId # r2.receiverUserId

\* Mutant of InsertMany: only the first document is inserted.
InsertManyFirst(coll, docs) ==
  IF Len(docs) = 0 THEN [error |-> "none", coll |-> coll]
  ELSE [error |-> "none", coll |-> coll \cup {docs[1]}]

\* Assignment.insertMany(docs): all or nothing inside the transaction; a
\* document that collides with a unique index is a duplicate key error.
InsertMany(coll, docs) ==
  LET new == {docs[i] : i \in 1..Len(docs)}
  IN IF \/ Cardinality(new) < Len(docs)
        \/ coll \cap new # {}
        \/ ~UniqueIndexesHold(coll \cup new)
     THEN [error |-> ErrDuplicate, coll |-> coll]
     ELSE [error |-> "none", coll |-> coll \cup new]

\* Mutant of Save: the document is replaced by one without its name.
SaveReplace(evs, eventId, doc) ==
  [evs EXCEPT ![eventId] = [doc EXCEPT !.name = ""]]

\* event.save(): writes the modified path, status.
Save(evs, eventId, doc) == [evs EXCEPT ![eventId].status = doc.status]

\* session.commitTransaction(): the transaction's writes become the store.
CommitTransaction(store, txn) == txn

\* Mutant of AbortTransaction: the writes made so far stay.
AbortKeepsWrites(store, txn) == txn

\* session.abortTransaction(): the transaction's writes are discarded.
AbortTransaction(store, txn) == store

\* Mutant of Numbers: the numbers start at 0.
NumbersFromZero(n) == [i \in 1..n |-> i - 1]

\* Array.from({ length: n }, (_, i) => i + 1)
Numbers(n) == [i \in 1..n |-> i]

\* Mutant of BuildAssignments: the last santa gets no row.
BuildAssignmentsShort(eventId, santas, receivers, shuffledNumbers) ==
  [index \in 1..(Len(santas) - 1) |->
    [eventId |-> eventId,
     santaUserId |-> santas[index],
     receiverUserId |-> receivers[index],
     receiverNumber |-> shuffledNumbers[index]]]

\* santas.map((santa, index) => ({ ... }))
BuildAssignments(eventId, santas, receivers, shuffledNumbers) ==
  [index \in 1..Len(santas) |->
    [eventId |-> eventId,
     santaUserId |-> santas[index],
     receiverUserId |-> receivers[index],
     receiverNumber |-> shuffledNumbers[index]]]

\* Mutant of EventFound: the check is missing.
EventFoundAlways(evs, eventId) == TRUE

\* `if (!event)` after Event.findById: a document with this identifier exists.
EventFound(evs, eventId) == eventId \in DOMAIN evs

\* Mutant of TooFewParticipants: one participant is let through.
TooFewBelowOne(participants) == Len(participants) < 1

\* `participants.length < 2`
TooFewParticipants(participants) == Len(participants) < 2

\* The catch block: abort, rethrow; the finally block ends the session.
\* `raised` is the error the failing step threw, `error` the one that
\* reaches the caller.
Thrown(err, step, store, txn) ==
  [error |-> err, at |-> step, store |-> AbortTransaction(store, txn), rows |-> {},
   raised |-> err, session |-> "ended"]

\* The catch block when abortTransaction throws abortErr: `throw error` is
\* not reached, the finally block ends the session, abortErr reaches the
\* caller. The transaction, never committed, is discarded with the session.
ThrownInCatch(err, abortErr, step, store, txn) ==
  [error |-> abortErr, at |-> step, store |-> store, rows |-> {},
   raised |-> err, session |-> "ended"]

\* assignSecretSanta(eventId) run against `store` (assignments, events) with
\* the users `us`; `fault` names the store operation that throws (if
\* reached), draws/js are the random values of the shuffles.
RunAssignment(store, us, eventId, fault, draws, js) ==
  LET txn0 == store
  IN
  IF fault = "findById" THEN Thrown(ErrStore, "findById", store, txn0)
  ELSE IF ~EventFound(txn0.events, eventId) THEN Thrown(ErrNotFound, "findById", store, txn0)
  ELSE IF fault = "find" THEN Thrown(ErrStore, "find", store, txn0)
  ELSE
  LET event == txn0.events[eventId]
      participants == Find(us, eventId)
  IN
  IF TooFewParticipants(participants) THEN Thrown(ErrTooFew, "find", store, txn0)
  ELSE IF fault = "deleteMany" THEN Thrown(ErrStore, "deleteMany", store, txn0)
  ELSE
  LET txn1 == [txn0 EXCEPT !.assignments = DeleteMany(@, eventId)]
      santas == participants
      gen == GenerateDerangement(participants, MaxAttempts, draws)
  IN
  IF gen.error # "none" THEN Thrown(gen.error, "generateDerangement", store, txn1)
  ELSE
  LET receivers == gen.result
      shuffledNumbers == ShuffleArray(Numbers(Len(participants)), js)
      docs == BuildAssignments(eventId, santas, receivers, shuffledNumbers)
      ins == InsertMany(txn1.assignments, docs)
  IN
  IF fault = "insertMany" THEN Thrown(ErrStore, "insertMany", store, txn1)
  ELSE IF ins.error # "none" THEN Thrown(ins.error, "insertMany", store, txn1)
  ELSE
  LET txn2 == [txn1 EXCEPT !.assignments = ins.coll]
  IN
  IF fault = "save" THEN Thrown(ErrStore, "save", store, txn2)
  ELSE
  LET txn3 == [txn2 EXCEPT !.events = Save(@, eventId, [event EXCEPT !.status = "assigned"])]
  IN
  IF fault = "commit" THEN Thrown(ErrStore, "commit", store, txn3)
  ELSE IF fault = "abortTransaction"
  THEN ThrownInCatch(ErrStore, ErrAbort, "commit", store, txn3)
  ELSE [error |-> "none", at |-> "done", store |-> CommitTransaction(store, txn3),
        rows |-> {docs[i] : i \in 1..Len(docs)},
        raised |-> "none", session |-> "ended"]

\* ------------------------------------------------------ triggerAssignment
ErrAlreadyAssigned == "Assignments already completed for this event"

\* An HTTP response of triggerAssignment over `store`; `called` tells whether
\* assignSecretSanta was called, `rows` are the rows it committed.
Response(status, message, called, store, rows) ==
  [status |-> status, message |-> message, called |-> called, store |-> store,
   rows |-> rows]

\* Mutant of TriggerAssignment: the status of the event is not looked at.
TriggerAssignmentNoGate(store, us, id, lookupFails, fault, draws, js) ==
  IF lookupFails THEN Response(500, ErrStore, FALSE, store, {})
  ELSE IF ~EventFound(store.events, id) THEN Response(404, ErrNotFound, FALSE, store, {})
  ELSE LET r == RunAssignment(store, us, id, fault, draws, js)
       IN IF r.error = "none" THEN Response(200, "none", TRUE, r.store, r.rows)
          ELSE Response(500, r.error, TRUE, r.store, {})

\* triggerAssignment for the event id: 404 when Event.findById finds nothing,
\* 400 when the event is already assigned, else assignSecretSanta is called
\* and the answer is 200, or 500 with the message of what it threw.
\* lookupFails: the handler's own Event.findById throws.
TriggerAssignment(store, us, id, lookupFails, fault, draws, js) ==
  IF lookupFails THEN Response(500, ErrStore, FALSE, store, {})
  ELSE IF ~EventFound(store.events, id) THEN Response(404, ErrNotFound, FALSE, store, {})
  ELSE IF store.events[id].status = "assigned"
  THEN Response(400, ErrAlreadyAssigned, FALSE, store, {})
  ELSE LET r == RunAssignment(store, us, id, fault, draws, js)
       IN IF r.error = "none" THEN Response(200, "none", TRUE, r.store, r.rows)
          ELSE Response(500, r.error, TRUE, r.store, {})

\* -------------------------------------------------------------- readers
\* What a user document holds besides its event: name, email and wishlist.
UserNames == {"Ann", "Bob"}
Emails == {"ann@example.com", "bob@example.com"}
Wishlists == {"games", "books"}
Undefined == "undefined"

\* populate(path, select): the referenced user document with its _id and
\* the selected fields; a field that is not selected is not loaded.
Populate(profiles, userId, select) ==
  [id |-> userId,
   name |-> IF "name" \in select THEN profiles[userId].name ELSE Undefined,
   email |-> IF "email" \in select THEN profiles[userId].email ELSE Undefined,
   wishlist |-> IF "wishlist" \in select THEN profiles[userId].wishlist ELSE Undefined]

\* Mutant of GetUserAssignment: the query leaves out the santa.
GetUserAssignmentAnyRow(coll, profiles, eventId, userId) ==
  LET found == {r \in coll : r.eventId = eventId}
  IN IF found = {} THEN <<>>
     ELSE LET assignment == CHOOSE r \in found : TRUE
              receiverUserId == Populate(profiles, assignment.receiverUserId, {"wishlist"})
          IN <<[receiverNumber |-> assignment.receiverNumber,
                receiverWishlist |-> receiverUserId.wishlist]>>

\* Mutant of GetUserAssignment: the receiver's name is selected and returned.
GetUserAssignmentNamed(coll, profiles, eventId, userId) ==
  LET found == {r \in coll : r.eventId = eventId /\ r.santaUserId = userId}
  IN IF found = {} THEN <<>>
     ELSE LET assignment == CHOOSE r \in found : TRUE
              receiverUserId == Populate(profiles, assignment.receiverUserId,
                                         {"name", "wishlist"})
          IN <<[receiverNumber |-> assignment.receiverNumber,
                receiverWishlist |-> receiverUserId.wishlist,
                receiverName |-> receiverUserId.name]>>

\* getUserAssignment: <<>> stands for null, <<result>> for a result.
GetUserAssignment(coll, profiles, eventId, userId) ==
  LET found == {r \in coll : r.eventId = eventId /\ r.santaUserId = userId}
  IN IF found = {} THEN <<>>
     ELSE LET assignment == CHOOSE r \in found : TRUE
              receiverUserId == Populate(profiles, assignment.receiverUserId, {"wishlist"})
          IN <<[receiverNumber |-> assignment.receiverNumber,
                receiverWishlist |-> receiverUserId.wishlist]>>

\* .sort({ receiverNumber: 1 })
RECURSIVE SortByReceiverNumber(_)
SortByReceiverNumber(rows) ==
  IF rows = {} THEN <<>>
  ELSE LET first == CHOOSE r \in rows : \A q \in rows : r.receiverNumber <= q.receiverNumber
       IN <<first>> \o SortByReceiverNumber(rows \ {first})

\* Mutant of GetAllAssignments: the query is not sorted, the rows come in
\* the order they were inserted (the order of the santas).
GetAllAssignmentsUnsorted(coll, profiles, eventId) ==
  LET rows == {r \in coll : r.eventId = eventId}
      santas == AscendingSeq({r.santaUserId : r \in rows})
      found == [i \in 1..Len(santas) |-> CHOOSE r \in rows : r.santaUserId = santas[i]]
  IN [i \in 1..Len(found) |->
       [santa |-> Populate(profiles, found[i].santaUserId, {"name", "email", "wishlist"}),
        receiver |-> Populate(profiles, found[i].receiverUserId, {"name", "email", "wishlist"}),
        receiverNumber |-> found[i].receiverNumber]]

\* getAllAssignments
GetAllAssignments(coll, profiles, eventId) ==
  LET found == SortByReceiverNumber({r \in coll : r.eventId = eventId})
  IN [i \in 1..Len(found) |->
       [santa |-> Populate(profiles, found[i].santaUserId, {"name", "email", "wishlist"}),
        receiver |-> Populate(profiles, found[i].receiverUserId, {"name", "email", "wishlist"}),
        receiverNumber |-> found[i].receiverNumber]]

\* getMyAssignment for the authenticated user userId: status and body of
\* the response.
GetMyAssignment(evs, coll, profiles, id, userId) ==
  IF id \notin DOMAIN evs
  THEN [status |-> 404, message |-> "Event not found", assignment |-> <<>>]
  ELSE IF evs[id].status # "assigned"
  THEN [status |-> 400, message |-> "Assignments have not been completed yet",
        assignment |-> <<>>]
  ELSE LET assignment == GetUserAssignment(coll, profiles, id, userId)
       IN IF assignment = <<>>
          THEN [status |-> 404,
                message |-> "No assignment found. Make sure you joined the event.",
                assignment |-> <<>>]
          ELSE [status |-> 200, message |-> "",
                assignment |-> <<[receiverNumber |-> assignment[1].receiverNumber,
                                  receiverWishlist |-> assignment[1].receiverWishlist]>>]

\* ------------------------------------------------- runs in flight
\* An assignSecretSanta invocation runs its store operations in a session
\* with one transaction (lines 79-80). The store's transactions read from
\* the snapshot taken at their first operation, keep their writes to
\* themselves until the commit, and fail a write with a write conflict when
\* the document or unique index entry it touches was written by a
\* transaction that is still open or that committed after the snapshot.
ErrWriteConflict == "WriteConflict"

EmptyStore == [assignments |-> {}, events |-> <<>>]

\* Mutant of RowKeys: the collection has no unique index.
RowKeysNoIndexes(row) ==
  {[index |-> "_id", eventId |-> row.eventId,
    key |-> <<row.santaUserId, row.receiverUserId, row.receiverNumber>>]}

\* The document of an assignment row and its entries in the three unique
\* indexes of the collection.
RowKeys(row) ==
  {[index |-> "_id", eventId |-> row.eventId,
    key |-> <<row.santaUserId, row.receiverUserId, row.receiverNumber>>],
   [index |-> "receiverNumber", eventId |-> row.eventId, key |-> <<row.receiverNumber>>],
   [index |-> "santaUserId", eventId |-> row.eventId, key |-> <<row.santaUserId>>],
   [index |-> "receiverUserId", eventId |-> row.eventId, key |-> <<row.receiverUserId>>]}

\* The document of an event.
EventKey(eventId) == [index |-> "event", eventId |-> eventId, key |-> <<>>]

\* An invocation that has not started.
IdleRun ==
  [pc |-> "idle", eventId |-> NoEvent, participants |-> <<>>,
   snap |-> EmptyStore, txn |-> EmptyStore, wkeys |-> {}, stale |-> {},
   docs |-> <<>>, error |-> "none", at |-> "none"]

NoRuns == [r \in RunIds |-> IdleRun]

\* An invocation that has returned or thrown: the session is ended, the
\* promise is resolved (error "none") or rejected.
Finished(eventId, error, at, participants, docs) ==
  [IdleRun EXCEPT !.pc = "done", !.eventId = eventId, !.error = error, !.at = at,
                  !.participants = participants, !.docs = docs]

\* The catch block of a run in flight: abortTransaction, rethrow, endSession.
Aborted(run, error, at) == Finished(run.eventId, error, at, run.participants, <<>>)

\* A write of `keys` by `run` meets a write that `held` (the writes of the
\* other open transactions) or run.stale (the writes committed since the
\* run's snapshot) has made.
WriteConflict(run, held, keys) == keys \cap (held \cup run.stale) # {}

\* A write of `keys` reaches the store: the transactions that are open have
\* them written after their snapshots.
MadeStale(rs, keys) ==
  [o \in DOMAIN rs |->
     IF rs[o].pc \in {"idle", "done"} THEN rs[o]
     ELSE [rs[o] EXCEPT !.stale = @ \cup keys]]

\* Mutant of ApplyWrites: the transaction's view replaces the store.
ApplyWritesWhole(store, snap, txn) == txn

\* The writes of a committing transaction applied to the store: the rows it
\* deleted go, the rows it inserted come, the status it saved is set.
ApplyWrites(store, snap, txn) ==
  [assignments |-> (store.assignments \ (snap.assignments \ txn.assignments))
                     \cup (txn.assignments \ snap.assignments),
   events |-> [e \in DOMAIN store.events |->
                 IF e \in DOMAIN snap.events /\ txn.events[e].status # snap.events[e].status
                 THEN [store.events[e] EXCEPT !.status = txn.events[e].status]
                 ELSE store.events[e]]]

\* Lines 79-94: the session and its transaction are started, the event and
\* the participants are read from the transaction's snapshot.
StartTransaction(store, us, eventId) ==
  IF ~EventFound(store.events, eventId)
  THEN [store |-> store, run |-> Finished(eventId, ErrNotFound, "findById", <<>>, <<>>)]
  ELSE IF TooFewParticipants(Find(us, eventId))
  THEN [store |-> store, run |-> Finished(eventId, ErrTooFew, "find", Find(us, eventId), <<>>)]
  ELSE [store |-> store,
        run |-> [IdleRun EXCEPT !.pc = "read", !.eventId = eventId, !.at = "find",
                                !.participants = Find(us, eventId),
                                !.snap = store, !.txn = store]]

\* Mutant of DeleteManyInSession: the deletion is not given the session, so
\* it reaches the store at once.
DeleteManyNoSession(store, run, held) ==
  [store |-> [store EXCEPT !.assignments = DeleteMany(@, run.eventId)],
   run |-> [run EXCEPT !.pc = "deleted", !.at = "deleteMany",
                       !.txn.assignments = DeleteMany(@, run.eventId)]]

\* Line 97: Assignment.deleteMany({ eventId }).session(session)
DeleteManyInSession(store, run, held) ==
  LET keys == UNION {RowKeys(d) : d \in RowsOf(run.txn.assignments, run.eventId)}
  IN IF WriteConflict(run, held, keys)
     THEN [store |-> store, run |-> Aborted(run, ErrWriteConflict, "deleteMany")]
     ELSE [store |-> store,
           run |-> [run EXCEPT !.pc = "deleted", !.at = "deleteMany",
                               !.txn.assignments = DeleteMany(@, run.eventId),
                               !.wkeys = @ \cup keys]]

\* Lines 100-116: the pairing and the numbers are computed, the rows are
\* built and Assignment.insertMany(assignments, { session }) inserts them.
InsertManyInSession(store, run, held, draws, js) ==
  LET gen == GenerateDerangement(run.participants, MaxAttempts, draws)
  IN
  IF gen.error # "none"
  THEN [store |-> store, run |-> Aborted(run, gen.error, "generateDerangement")]
  ELSE
  LET shuffledNumbers == ShuffleArray(Numbers(Len(run.participants)), js)
      docs == BuildAssignments(run.eventId, run.participants, gen.result, shuffledNumbers)
      ins == InsertMany(run.txn.assignments, docs)
      keys == UNION {RowKeys(docs[i]) : i \in 1..Len(docs)}
  IN
  IF ins.error # "none"
  THEN [store |-> store, run |-> Aborted(run, ins.error, "insertMany")]
  ELSE IF WriteConflict(run, held, keys)
  THEN [store |-> store, run |-> Aborted(run, ErrWriteConflict, "insertMany")]
  ELSE [store |-> store,
        run |-> [run EXCEPT !.pc = "inserted", !.at = "insertMany", !.docs = docs,
                            !.txn.assignments = ins.coll,
                            !.wkeys = @ \cup keys]]

\* Lines 119-120: event.status = 'assigned'; event.save({ session }). A save
\* that modifies no path writes nothing.
SaveInSession(store, run, held) ==
  LET event == run.txn.events[run.eventId]
      keys == IF event.status # "assigned" THEN {EventKey(run.eventId)} ELSE {}
  IN IF WriteConflict(run, held, keys)
     THEN [store |-> store, run |-> Aborted(run, ErrWriteConflict, "save")]
     ELSE [store |-> store,
           run |-> [run EXCEPT !.pc = "saved", !.at = "save",
                               !.txn.events = Save(@, run.eventId,
                                                   [event EXCEPT !.status = "assigned"]),
                               !.wkeys = @ \cup keys]]

\* Line 122: session.commitTransaction(), then the finally block.
CommitInSession(store, run) ==
  [store |-> ApplyWrites(store, run.snap, run.txn),
   run |-> Finished(run.eventId, "none", "done", run.participants, run.docs)]

\* ---------------------------------------------------------------- state
Call(op, eventId, error, at, rows) ==
  [op |-> op, eventId |-> eventId, error |-> error, at |-> at, rows |-> rows]

\* The completed call assignSecretSanta(eventId) with outcome r.
Returned(eventId, r) ==
  [op |-> "assignSecretSanta", eventId |-> eventId, error |-> r.error, at |-> r.at,
   rows |-> r.rows, raised |-> r.raised, session |-> r.session]

Init ==
  /\ users = [u \in UserIds |-> NoEvent]
  /\ events = <<>>
  /\ assignments = {}
  /\ last = Call("init", NoEvent, "none", "done", {})
  /\ runs = NoRuns

\* assignSecretSanta(eventId); `fault` names the store operation that throws,
\* draws and js are the random values of its shuffles.
AssignSecretSanta(eventId, fault, draws, js) ==
  \E r \in {RunAssignment([assignments |-> assignments, events |-> events],
                           users, eventId, fault, draws, js)} :
    /\ assignments' = r.store.assignments
    /\ events' = r.store.events
    /\ last' = Returned(eventId, r)
    /\ UNCHANGED <<users, runs>>

\* createEvent: Event.create({ name, budgetLimit, registrationDeadline, status: 'open' })
CreateEvent(name, budgetLimit, registrationDeadline) ==
  LET id == Cardinality(DOMAIN events) + 1
  IN /\ events' = events @@ (id :> [name |-> name, budgetLimit |-> budgetLimit,
                                   registrationDeadline |-> registrationDeadline,
                                   status |-> "open"])
     /\ last' = Call("createEvent", id, "none", "201", {})
     /\ UNCHANGED <<users, assignments, runs>>

\* Request bodies of updateEvent. Every field is optional: `given` holds the
\* names of the fields the body carries; a field not given is not read (and
\* holds a fixed value here). The bodies tried carry no field, one field or
\* all four.
UpdateBodies ==
  {body \in [given : {{}, {"name"}, {"budgetLimit"}, {"registrationDeadline"}, {"status"},
                      {"name", "budgetLimit", "registrationDeadline", "status"}},
             name : Names, budgetLimit : Budgets, registrationDeadline : Deadlines,
             status : EventStatus] :
     /\ "name" \notin body.given => body.name = "Party"
     /\ "status" \notin body.given => body.status = "open"}

\* The four conditional assignments of updateEvent.
UpdateFields(event, body) ==
  [name |-> IF "name" \in body.given THEN body.name ELSE event.name,
   budgetLimit |-> IF "budgetLimit" \in body.given THEN body.budgetLimit ELSE event.budgetLimit,
   registrationDeadline |-> IF "registrationDeadline" \in body.given
                            THEN body.registrationDeadline ELSE event.registrationDeadline,
   status |-> IF "status" \in body.given THEN body.status ELSE event.status]

\* updateEvent
UpdateEvent(id, body) ==
  IF id \notin DOMAIN events
     THEN /\ last' = Call("updateEvent", id, ErrNotFound, "404", {})
          /\ UNCHANGED <<users, events, assignments, runs>>
     ELSE /\ events' = [events EXCEPT ![id] = UpdateFields(@, body)]
          /\ last' = Call("updateEvent", id, "none", "200", {})
          /\ runs' = IF UpdateFields(events[id], body) = events[id] THEN runs
                     ELSE MadeStale(runs, {EventKey(id)})
          /\ UNCHANGED <<users, assignments>>

\* Event.findOne({ status: 'open' }).sort({ createdAt: -1 })
CurrentOpenEvent(evs) ==
  LET open == {e \in DOMAIN evs : evs[e].status = "open"}
  IN IF open = {} THEN NoEvent ELSE CHOOSE e \in open : \A f \in open : f <= e

\* joinEvent, for the authenticated user userId at time now
JoinEvent(userId, now) ==
  LET event == CurrentOpenEvent(events)
  IN IF event = NoEvent
     THEN /\ last' = Call("joinEvent", NoEvent, "No open event to join", "404", {})
          /\ UNCHANGED <<users, events, assignments, runs>>
     ELSE IF now > events[event].registrationDeadline
     THEN /\ last' = Call("joinEvent", event, "Registration deadline has passed", "400", {})
          /\ UNCHANGED <<users, events, assignments, runs>>
     ELSE IF users[userId] = event
     THEN /\ last' = Call("joinEvent", event, "Already joined this event", "400", {})
          /\ UNCHANGED <<users, events, assignments, runs>>
     ELSE /\ users' = [users EXCEPT ![userId] = event]
          /\ last' = Call("joinEvent", event, "none", "200", {})
          /\ UNCHANGED <<events, assignments, runs>>

\* Number of participants a run for eventId loads.
ParticipantCount(eventId) ==
  IF eventId \in DOMAIN events THEN Len(Find(users, eventId)) ELSE 0

\* Two streams of random values for one shuffle of n elements: every draw
\* keeps its element (the shuffle is the identity), and every draw is 0 (for
\* three elements the shuffle is [B, C, A], a derangement).
StillDraws(n) == [i \in 1..(n - 1) |-> i]

ZeroDraws(n) == [i \in 1..(n - 1) |-> 0]

\* The random values one run of assignSecretSanta may consume in
\* generateDerangement: none below 3 elements, else one of the two streams
\* on every attempt (SpecGen tries every stream). A run that a store fault
\* stops has its pairing discarded, so one stream is tried for it.
DerangementDraws(n, fault) ==
  IF n < 3 THEN {<<>>}
  ELSE IF fault = "none"
  THEN {[k \in 1..MaxAttempts |-> js] : js \in {StillDraws(n), ZeroDraws(n)}}
  ELSE {[k \in 1..MaxAttempts |-> StillDraws(n)]}

\* The random values of the numbering shuffle: all of them.
NumberDraws(n, fault) ==
  IF n < 2 THEN {<<>>}
  ELSE IF fault = "none" THEN RandomDraws(n)
  ELSE {StillDraws(n)}

\* Up to MaxEventsSpec events: every store fault of a run,
\* every field of an event, joins before and after the deadline.
Next ==
  \/ \E eventId \in (1..MaxEventsSpec) \cup {MissingEventId}, fault \in Faults :
       \E draws \in DerangementDraws(ParticipantCount(eventId), fault),
          js \in NumberDraws(ParticipantCount(eventId), fault) :
         AssignSecretSanta(eventId, fault, draws, js)
  \/ /\ Cardinality(DOMAIN events) < MaxEventsSpec
     /\ \E name \in Names, budgetLimit \in Budgets, registrationDeadline \in Deadlines :
          CreateEvent(name, budgetLimit, registrationDeadline)
  \/ \E id \in (1..MaxEventsSpec) \cup {MissingEventId}, body \in UpdateBodies :
       UpdateEvent(id, body)
  \/ \E userId \in UserIds, now \in Clock : JoinEvent(userId, now)

Spec == Init /\ [][Next]_vars

\* Several events, so that users leave an event for a newer one. The store
\* does not fail and updateEvent opens or closes an event.
StatusBodies ==
  {body \in UpdateBodies : body.given = {"status"} /\ body.status \in {"open", "closed"}}

NextEvents ==
  \/ \E eventId \in EventIds :
       \E draws \in DerangementDraws(ParticipantCount(eventId), "none"),
          js \in NumberDraws(ParticipantCount(eventId), "none") :
         AssignSecretSanta(eventId, "none", draws, js)
  \/ /\ Cardinality(DOMAIN events) < MaxEvents
     /\ \E name \in {"Party"}, budgetLimit \in Budgets, registrationDeadline \in Deadlines :
          CreateEvent(name, budgetLimit, registrationDeadline)
  \/ \E id \in EventIds, body \in StatusBodies : UpdateEvent(id, body)
  \/ \E userId \in UserIds, now \in {0} : JoinEvent(userId, now)

SpecEvents == Init /\ [][NextEvents]_vars

\* ------------------------------------------- the generator on its own
\* Arrays of distinct participants, of every length up to MaxUsers.
Arrays ==
  UNION {{a \in [1..n -> UserIds] : \A i, j \in 1..n : i # j => a[i] # a[j]} :
           n \in 0..MaxUsers}

\* santa -> receiver pairs of a pairing
Pairs(santas, receivers) ==
  {<<santas[i], receivers[i]>> : i \in 1..Len(receivers)}

InitGen ==
  /\ users = [u \in UserIds |-> NoEvent]
  /\ events = <<>>
  /\ assignments = {}
  /\ last \in {[op |-> "input", array |-> a] : a \in Arrays}
  /\ runs = NoRuns

\* generateDerangement(last.array, MaxAttempts) with the random values draws
GenerateDerangementCall(draws) ==
  /\ last.op = "input"
  /\ LET out == GenerateDerangement(last.array, MaxAttempts, draws)
     IN last' = [op |-> "generateDerangement", array |-> last.array, draws |-> draws,
                 out |-> out, pairs |-> Pairs(last.array, out.result)]
  /\ UNCHANGED <<users, events, assignments, runs>>

\* shuffleArray(last.array) with the random values js
ShuffleArrayCall(js) ==
  /\ last.op = "input"
  /\ last' = [op |-> "shuffleArray", array |-> last.array, js |-> js,
              out |-> ShuffleArray(last.array, js)]
  /\ UNCHANGED <<users, events, assignments, runs>>

NextGen ==
  \/ /\ last.op = "input"
     /\ \E draws \in [1..MaxAttempts -> RandomDraws(Len(last.array))] :
          GenerateDerangementCall(draws)
  \/ /\ last.op = "input"
     /\ \E js \in RandomDraws(Len(last.array)) : ShuffleArrayCall(js)

SpecGen == InitGen /\ [][NextGen]_vars

\* ------------------------------------------ invocations side by side
\* Up to MaxRuns invocations of assignSecretSanta take their steps in any
\* order, each store operation one step, while users join the newest event
\* and readers query the assignments.
OpenEvent == [name |-> "Party", budgetLimit |-> 50, registrationDeadline |-> 1,
              status |-> "open"]

\* Every user joined the first event and a run assigned it; then the second
\* event was created.
FirstRun ==
  RunAssignment([assignments |-> {}, events |-> (1 :> OpenEvent)],
                [u \in UserIds |-> 1], 1, "none",
                [k \in 1..MaxAttempts |-> StillDraws(MaxUsers)], StillDraws(MaxUsers))

InitConc ==
  /\ users = [u \in UserIds |-> 1]
  /\ events = FirstRun.store.events @@ (2 :> OpenEvent)
  /\ assignments = FirstRun.store.assignments
  /\ last = Call("createEvent", 2, "none", "201", {})
  /\ runs = NoRuns

\* The users' names, emails and wishlists do not change here.
FixedProfiles ==
  [u \in UserIds |-> [name |-> "Ann", email |-> "ann@example.com", wishlist |-> "games"]]

\* The updateEvent body that marks an event assigned. A write outside a
\* transaction waits while an open transaction holds the document.
AssignedBodies ==
  {body \in UpdateBodies : body.given = {"status"} /\ body.status = "assigned"}

\* The writes the open transactions other than r's have made.
Held(r) == UNION {runs[o].wkeys : o \in RunIds \ {r}}

DocsOf(run) == {run.docs[i] : i \in 1..Len(run.docs)}

\* Run r takes a step with outcome res; a commit makes its writes stale for
\* the transactions that are open; a run that ends is the last call.
RunStep(r, res, commit) ==
  /\ assignments' = res.store.assignments
  /\ events' = res.store.events
  /\ runs' = [IF commit THEN MadeStale(runs, runs[r].wkeys) ELSE runs EXCEPT ![r] = res.run]
  /\ last' = IF res.run.pc = "done"
             THEN Returned(res.run.eventId,
                           [error |-> res.run.error, at |-> res.run.at,
                            rows |-> DocsOf(res.run), raised |-> res.run.error,
                            session |-> "ended"])
             ELSE last
  /\ UNCHANGED users

CurrentStore == [assignments |-> assignments, events |-> events]

\* Runs are numbered in the order they start.
StartRun(r, eventId) ==
  /\ runs[r].pc = "idle"
  /\ \A o \in 1..(r - 1) : runs[o].pc # "idle"
  /\ \E res \in {StartTransaction(CurrentStore, users, eventId)} : RunStep(r, res, FALSE)

DeleteManyStep(r) ==
  /\ runs[r].pc = "read"
  /\ \E res \in {DeleteManyInSession(CurrentStore, runs[r], Held(r))} : RunStep(r, res, FALSE)

InsertManyStep(r, draws, js) ==
  /\ runs[r].pc = "deleted"
  /\ \E res \in {InsertManyInSession(CurrentStore, runs[r], Held(r), draws, js)} :
       RunStep(r, res, FALSE)

SaveStep(r) ==
  /\ runs[r].pc = "inserted"
  /\ \E res \in {SaveInSession(CurrentStore, runs[r], Held(r))} : RunStep(r, res, FALSE)

CommitStep(r) ==
  /\ runs[r].pc = "saved"
  /\ \E res \in {CommitInSession(CurrentStore, runs[r])} : RunStep(r, res, TRUE)

\* getAllAssignments(eventId), outside any transaction
GetAllAssignmentsCall(eventId, profiles) ==
  /\ last' = [op |-> "getAllAssignments", eventId |-> eventId, profiles |-> profiles,
              out |-> GetAllAssignments(assignments, profiles, eventId)]
  /\ UNCHANGED <<users, events, assignments, runs>>

\* getUserAssignment(eventId, userId), outside any transaction
GetUserAssignmentCall(eventId, userId, profiles) ==
  /\ last' = [op |-> "getUserAssignment", eventId |-> eventId, userId |-> userId,
              profiles |-> profiles,
              out |-> GetUserAssignment(assignments, profiles, eventId, userId)]
  /\ UNCHANGED <<users, events, assignments, runs>>

NextConc ==
  \/ \E r \in RunIds, eventId \in EventIds : StartRun(r, eventId)
  \/ \E r \in RunIds : DeleteManyStep(r)
  \/ \E r \in RunIds :
       /\ runs[r].pc = "deleted"
       /\ \E draws \in DerangementDraws(Len(runs[r].participants), "none"),
             js \in {StillDraws(Len(runs[r].participants)),
                     ZeroDraws(Len(runs[r].participants))} :
            InsertManyStep(r, draws, js)
  \/ \E r \in RunIds : SaveStep(r)
  \/ \E r \in RunIds : CommitStep(r)
  \/ \E userId \in UserIds, now \in {0} : JoinEvent(userId, now)
  \/ \E id \in EventIds, body \in AssignedBodies :
       /\ EventKey(id) \notin Held(0)
       /\ UpdateEvent(id, body)
  \/ \E eventId \in EventIds : GetAllAssignmentsCall(eventId, FixedProfiles)
  \/ \E eventId \in EventIds, userId \in UserIds :
       GetUserAssignmentCall(eventId, userId, FixedProfiles)

SpecConc == InitConc /\ [][NextConc]_vars

\* ------------------------------------------------ the readers on their own
\* The arrays User.find returns for an event with at least 2 participants.
ParticipantArrays ==
  {AscendingSeq(P) : P \in {Q \in SUBSET UserIds : Cardinality(Q) >= 2}}

\* The row sets a committed run leaves for eventId: the pairing of the
\* array, with every numbering.
RunOutputs(eventId) ==
  UNION {{SeqToSet(BuildAssignments(eventId, a,
                     GenerateDerangement(a, MaxAttempts,
                                         [k \in 1..MaxAttempts |-> StillDraws(Len(a))]).result,
                     ShuffleArray(Numbers(Len(a)), js))) :
            js \in RandomDraws(Len(a))} : a \in ParticipantArrays}

\* The rows a run leaves for eventId when every user takes part and the
\* numbers stay in order.
FullOutput(eventId) ==
  SeqToSet(BuildAssignments(eventId, AscendingSeq(UserIds),
             GenerateDerangement(AscendingSeq(UserIds), MaxAttempts,
                                 [k \in 1..MaxAttempts |-> StillDraws(MaxUsers)]).result,
             ShuffleArray(Numbers(MaxUsers), StillDraws(MaxUsers))))

\* Assignment collections over the events evs: for every event no rows or
\* the rows of FullOutput.
RECURSIVE OtherCollections(_)
OtherCollections(evs) ==
  IF evs = {} THEN {{}}
  ELSE LET e == CHOOSE x \in evs : TRUE
       IN {c \cup o : c \in OtherCollections(evs \ {e}), o \in {FullOutput(e), {}}}

\* Assignment collections for a query on eventId: no rows or the rows of
\* any run for that event, beside rows of the other events.
Collections(eventId) ==
  {c \cup o : c \in RunOutputs(eventId) \cup {{}},
              o \in OtherCollections(EventIds \ {eventId})}

EmailOf(name) == IF name = "Ann" THEN "ann@example.com" ELSE "bob@example.com"

WishlistOf(name) == IF name = "Ann" THEN "games" ELSE "books"

\* The user documents of the users us.
Profiles(us) ==
  {p \in [us -> [name : UserNames, email : Emails, wishlist : Wishlists]] :
     \A u \in us : p[u].email = EmailOf(p[u].name) /\ p[u].wishlist = WishlistOf(p[u].name)}

\* The store a reader finds, and the event its query is for.
InitRead ==
  /\ users = [u \in UserIds |-> NoEvent]
  /\ events \in {[e \in EventIds |-> [OpenEvent EXCEPT !.status = st]] :
                   st \in {"open", "assigned"}}
  /\ \E eventId \in EventIds :
       /\ assignments \in Collections(eventId)
       /\ last \in {[op |-> "input", eventId |-> eventId, profiles |-> p] :
                      p \in Profiles(UserIds)}
  /\ runs = NoRuns

\* The user documents with the identifiers of the users a and b exchanged.
ExchangeUsers(profiles, a, b) ==
  [u \in DOMAIN profiles |-> IF u = a THEN profiles[b] ELSE IF u = b THEN profiles[a]
                             ELSE profiles[u]]

\* The rows with the identifiers of the users a and b exchanged.
ExchangeInRows(coll, a, b) ==
  LET x(u) == IF u = a THEN b ELSE IF u = b THEN a ELSE u
  IN {[d EXCEPT !.santaUserId = x(@), !.receiverUserId = x(@)] : d \in coll}

\* getMyAssignment(id) for userId on the store and on a second store that
\* differs from it in the receiver only: there the receiver of userId's row
\* has the identifier of `other`, and the given name and email.
GetMyAssignmentOnBoth(id, userId, other, name, email) ==
  LET found == {d \in assignments : d.eventId = id /\ d.santaUserId = userId}
  IN /\ found # {}
     /\ other # userId
     /\ LET receiver == (CHOOSE d \in found : TRUE).receiverUserId
            coll2 == ExchangeInRows(assignments, receiver, other)
            profiles2 == [ExchangeUsers(last.profiles, receiver, other)
                            EXCEPT ![other].name = name, ![other].email = email]
        IN last' = [op |-> "getMyAssignment", eventId |-> id, userId |-> userId,
                    receiver |-> receiver, other |-> other,
                    profiles |-> last.profiles, profiles2 |-> profiles2,
                    out |-> GetMyAssignment(events, assignments, last.profiles, id, userId),
                    out2 |-> GetMyAssignment(events, coll2, profiles2, id, userId),
                    result |-> GetUserAssignment(assignments, last.profiles, id, userId),
                    result2 |-> GetUserAssignment(coll2, profiles2, id, userId)]
     /\ UNCHANGED <<users, events, assignments, runs>>

NextRead ==
  \/ /\ last.op = "input"
     /\ \E userId \in UserIds : GetUserAssignmentCall(last.eventId, userId, last.profiles)
  \/ /\ last.op = "input"
     /\ GetAllAssignmentsCall(last.eventId, last.profiles)
  \/ /\ last.op = "input"
     /\ \E userId \in UserIds, other \in UserIds, name \in UserNames, email \in Emails :
          GetMyAssignmentOnBoth(last.eventId, userId, other, name, email)

SpecRead == InitRead /\ [][NextRead]_vars

\* ------------------------------------------------ the HTTP handlers
\* The administrator creates and updates the event and triggers the
\* assignment, users join: assignSecretSanta runs only behind
\* triggerAssignment, each request handled in one step.
Answered(id, res) ==
  [op |-> "triggerAssignment", eventId |-> id, status |-> res.status,
   message |-> res.message, called |-> res.called, rows |-> res.rows]

TriggerAssignmentCall(id, lookupFails, fault, draws, js) ==
  \E res \in {TriggerAssignment([assignments |-> assignments, events |-> events],
                                 users, id, lookupFails, fault, draws, js)} :
    /\ assignments' = res.store.assignments
    /\ events' = res.store.events
    /\ last' = Answered(id, res)
    /\ UNCHANGED <<users, runs>>

\* updateEvent bodies that carry a status, any of the four.
AnyStatusBodies == {body \in UpdateBodies : body.given = {"status"}}

NextHttp ==
  \/ \E id \in (1..MaxEventsSpec) \cup {MissingEventId}, lookupFails \in BOOLEAN,
        fault \in Faults :
       \E draws \in DerangementDraws(ParticipantCount(id), fault),
          js \in NumberDraws(ParticipantCount(id), fault) :
         TriggerAssignmentCall(id, lookupFails, fault, draws, js)
  \/ /\ Cardinality(DOMAIN events) < MaxEventsSpec
     /\ \E name \in {"Party"}, budgetLimit \in Budgets, registrationDeadline \in Deadlines :
          CreateEvent(name, budgetLimit, registrationDeadline)
  \/ \E id \in (1..MaxEventsSpec) \cup {MissingEventId}, body \in AnyStatusBodies :
       UpdateEvent(id, body)
  \/ \E userId \in UserIds, now \in Clock : JoinEvent(userId, now)

SpecHttp == Init /\ [][NextHttp]_vars

\* ------------------------------------------- requests side by side
\* Up to MaxRuns triggerAssignment requests for the same event overlap: the
\* handler's status check is a step of its own, ahead of the steps of the
\* assignSecretSanta it calls, and users still join.

\* Lines 18-27 of triggerAssignment: the event is read outside any
\* transaction; the request ends with 404 or 400, or goes on to call
\* assignSecretSanta.
CheckStatus(store, id) ==
  IF ~EventFound(store.events, id)
  THEN Finished(id, ErrNotFound, "404", <<>>, <<>>)
  ELSE IF store.events[id].status = "assigned"
  THEN Finished(id, ErrAlreadyAssigned, "400", <<>>, <<>>)
  ELSE [IdleRun EXCEPT !.pc = "checked", !.eventId = id, !.at = "status"]

\* Two of the users joined the event createEvent made; no run yet.
InitRace ==
  /\ users = [u \in UserIds |-> IF u < MaxUsers THEN 1 ELSE NoEvent]
  /\ events = (1 :> OpenEvent)
  /\ assignments = {}
  /\ last = Call("joinEvent", 1, "none", "200", {})
  /\ runs = NoRuns

\* Request r arrives: requests are numbered in the order they arrive.
CheckStatusStep(r, id) ==
  /\ runs[r].pc = "idle"
  /\ \A o \in 1..(r - 1) : runs[o].pc # "idle"
  /\ \E run \in {CheckStatus(CurrentStore, id)} :
       /\ runs' = [runs EXCEPT ![r] = run]
       /\ last' = IF run.pc = "done"
                  THEN Answered(id, Response(IF run.at = "404" THEN 404 ELSE 400,
                                             run.error, FALSE, CurrentStore, {}))
                  ELSE last
  /\ UNCHANGED <<users, events, assignments>>

\* Line 30 of triggerAssignment: the call of assignSecretSanta, up to its
\* participants check.
CallAssignStep(r) ==
  /\ runs[r].pc = "checked"
  /\ \E res \in {StartTransaction(CurrentStore, users, runs[r].eventId)} :
       RunStep(r, res, FALSE)

NextRace ==
  \/ \E r \in RunIds, id \in {1, MissingEventId} : CheckStatusStep(r, id)
  \/ \E r \in RunIds : CallAssignStep(r)
  \/ \E r \in RunIds : DeleteManyStep(r)
  \/ \E r \in RunIds :
       /\ runs[r].pc = "deleted"
       /\ \E draws \in DerangementDraws(Len(runs[r].participants), "none"),
             js \in {StillDraws(Len(runs[r].participants)),
                     ZeroDraws(Len(runs[r].participants))} :
            InsertManyStep(r, draws, js)
  \/ \E r \in RunIds : SaveStep(r)
  \/ \E r \in RunIds : CommitStep(r)
  \/ \E userId \in UserIds, now \in {0} : JoinEvent(userId, now)

SpecRace == InitRace /\ [][NextRace]_vars

\* ----------------------------------------------------------- properties
ParticipantsOf(us, eventId) == {u \in DOMAIN us : us[u] = eventId}

AssignSucceeded == last.op = "assignSecretSanta" /\ last.error = "none"

\* C1: after a successful assignSecretSanta(E) the store holds exactly N rows
\* for E, and every participant of E is the santa of exactly one row and the
\* receiver of exactly one row.
C1_Complete ==
  AssignSucceeded =>
    LET P == ParticipantsOf(users, last.eventId)
        R == RowsOf(assignments, last.eventId)
    IN /\ Cardinality(P) >= 2
       /\ Cardinality(R) = Cardinality(P)
       /\ \A p \in P :
            /\ Cardinality({r \in R : r.santaUserId = p}) = 1
            /\ Cardinality({r \in R : r.receiverUserId = p}) = 1

C1_Witness ==
  /\ AssignSucceeded
  /\ Cardinality(ParticipantsOf(users, last.eventId)) = 3
  /\ Cardinality(RowsOf(assignments, last.eventId)) = 3

\* C2: no assignment row has santaUserId equal to receiverUserId, whatever
\* path of generateDerangement produced it, on first runs and re-runs.
C2_NoSelfAssignment ==
  \A r \in assignments : r.santaUserId # r.receiverUserId

C2_Witness ==
  /\ AssignSucceeded
  /\ \E r \in assignments : r.receiverNumber = 3
  /\ Cardinality(assignments) = 3

\* C3: after a successful assignSecretSanta(E) with N participants the
\* receiverNumber values of E's rows are exactly 1..N, none twice.
C3_Numbers ==
  AssignSucceeded =>
    LET N == Cardinality(ParticipantsOf(users, last.eventId))
        R == RowsOf(assignments, last.eventId)
    IN /\ {r.receiverNumber : r \in R} = 1..N
       /\ Cardinality(R) = N

C3_Witness ==
  /\ AssignSucceeded
  /\ {r.receiverNumber : r \in RowsOf(assignments, last.eventId)} = 1..3
  /\ \E r \in assignments : r.santaUserId = 1 /\ r.receiverNumber = 3

\* The k-th shuffle a generateDerangement call drew.
DrawnShuffle(k) == ShuffleArray(last.array, last.draws[k])

NoElementAtOriginalIndex(shuffled) ==
  \A i \in 1..Len(last.array) : shuffled[i] # last.array[i]

\* C4: for N >= 3 generateDerangement returns the first drawn shuffle that
\* has no element at its original index.
C4_FirstDerangementReturned ==
  (last.op = "generateDerangement" /\ Len(last.array) >= 3) =>
    \A k \in 1..MaxAttempts :
      (/\ NoElementAtOriginalIndex(DrawnShuffle(k))
       /\ \A m \in 1..(k - 1) : ~NoElementAtOriginalIndex(DrawnShuffle(m)))
      => last.out.result = DrawnShuffle(k)

\* C5: a run that fails after the old rows were deleted leaves the event's
\* status as it was and every row the event had before the call in place.
C5_FailureKeepsState ==
  [][(/\ last'.op = "assignSecretSanta"
      /\ last'.error # "none"
      /\ last'.at \in {"generateDerangement", "insertMany", "save", "commit"})
     => /\ RowsOf(assignments, last'.eventId) \subseteq assignments'
        /\ last'.eventId \in DOMAIN events'
        /\ events'[last'.eventId].status = events[last'.eventId].status]_vars

C5_Witness ==
  /\ last.op = "assignSecretSanta"
  /\ last.error = ErrStore
  /\ last.at \in {"insertMany", "save"}
  /\ Cardinality(RowsOf(assignments, last.eventId)) = 3
  /\ events[last.eventId].status = "open"

\* C6: a run on an event with fewer than 2 participants fails with the
\* 'Need at least 2 participants' error before any deletion: the rows and
\* the events are unchanged.
C6_TooFewRejected ==
  [][(/\ last'.op = "assignSecretSanta"
      /\ last'.eventId \in DOMAIN events
      /\ Cardinality(ParticipantsOf(users, last'.eventId)) < 2)
     => /\ last'.error = ErrTooFew
        /\ last'.at = "find"
        /\ assignments' = assignments
        /\ events' = events]_vars

C6_Witness ==
  /\ last.op = "assignSecretSanta"
  /\ last.error = ErrTooFew
  /\ Cardinality(ParticipantsOf(users, last.eventId)) = 1
  /\ RowsOf(assignments, last.eventId) # {}

\* C7: a run for an identifier that matches no event fails with 'Event not
\* found' (when the lookup itself does not fail) and changes no row and no
\* event.
C7_MissingEventRejected ==
  [][(/\ last'.op = "assignSecretSanta"
      /\ last'.eventId \notin DOMAIN events)
     => /\ last'.error \in {ErrNotFound, ErrStore}
        /\ (last'.error = ErrStore => last'.at = "findById")
        /\ assignments' = assignments
        /\ events' = events]_vars

C7_Witness ==
  /\ last.op = "assignSecretSanta"
  /\ last.error = ErrNotFound
  /\ last.eventId \notin DOMAIN events
  /\ assignments # {}

\* C8: after a successful run the event holds exactly the N rows this run
\* wrote: no row of an earlier run remains.
C8_Replaced ==
  AssignSucceeded =>
    /\ RowsOf(assignments, last.eventId) = last.rows
    /\ Cardinality(last.rows) = Cardinality(ParticipantsOf(users, last.eventId))

C8_Witness ==
  /\ AssignSucceeded
  /\ Cardinality(last.rows) = 2
  /\ events[last.eventId].name = "Gala"

\* C9: for two participants [A, B] generateDerangement returns [B, A]
\* without drawing a shuffle, so the pairs are A -> B and B -> A.
C9_TwoSwap ==
  (last.op = "generateDerangement" /\ Len(last.array) = 2) =>
    /\ last.out.error = "none"
    /\ last.out.result = <<last.array[2], last.array[1]>>
    /\ last.out.path = "swap"
    /\ last.out.attempts = 0
    /\ last.pairs = {<<last.array[1], last.array[2]>>, <<last.array[2], last.array[1]>>}

C9_Witness ==
  /\ last.op = "generateDerangement"
  /\ last.array = <<2, 1>>
  /\ last.out.result = <<1, 2>>

CommittedRuns(eventId) ==
  {r \in RunIds : runs[r].pc = "done" /\ runs[r].error = "none" /\ runs[r].eventId = eventId}

RowSetBefore(eventId) == RowsOf(FirstRun.store.assignments, eventId)

\* N rows over N >= 2 participants: every participant santa once and
\* receiver once, nobody their own receiver, the numbers 1..N.
CompleteOutput(rows, participants) ==
  /\ Cardinality(participants) >= 2
  /\ Cardinality(rows) = Cardinality(participants)
  /\ {d.santaUserId : d \in rows} = participants
  /\ {d.receiverUserId : d \in rows} = participants
  /\ {d.receiverNumber : d \in rows} = 1..Cardinality(participants)
  /\ \A d \in rows : d.santaUserId # d.receiverUserId

\* C11: with invocations for the same event running side by side, the rows
\* of an event are at every moment the rows it had before or the complete
\* output of one run that committed: never rows of two runs, never a doubled
\* set, never none once a run committed.
C11_OneRunsOutput ==
  \A e \in EventIds :
    LET R == RowsOf(assignments, e)
    IN IF CommittedRuns(e) = {} THEN R = RowSetBefore(e)
       ELSE \E r \in CommittedRuns(e) :
              /\ R = DocsOf(runs[r])
              /\ CompleteOutput(R, SeqToSet(runs[r].participants))

C11_Witness ==
  /\ runs[1].eventId = 2 /\ runs[2].eventId = 2
  /\ runs[1].error = ErrWriteConflict
  /\ runs[2].error = "none" /\ runs[2].pc = "done"
  /\ events[2].status = "assigned"
  /\ Cardinality(RowsOf(assignments, 2)) = 3

\* The rows a getAllAssignments result shows.
ObservedRows(out, eventId) ==
  {[eventId |-> eventId, santaUserId |-> out[i].santa.id,
    receiverUserId |-> out[i].receiver.id, receiverNumber |-> out[i].receiverNumber] :
     i \in 1..Len(out)}

\* The row sets that were ever committed for eventId.
WholeSets(eventId) ==
  {RowSetBefore(eventId)} \cup {DocsOf(runs[r]) : r \in CommittedRuns(eventId)}

\* C12: a getAllAssignments or getUserAssignment read taken while runs for
\* the event are in flight shows a whole committed row set (the one before
\* the run or the one of a committed run): never the state between the
\* delete and the insert, never a part of the new rows.
C12_ReadsWholeSets ==
  /\ last.op = "getAllAssignments" =>
       ObservedRows(last.out, last.eventId) \in WholeSets(last.eventId)
  /\ last.op = "getUserAssignment" =>
       \E S \in WholeSets(last.eventId) :
         \/ /\ last.out = <<>>
            /\ \A d \in S : d.santaUserId # last.userId
         \/ /\ Len(last.out) = 1
            /\ \E d \in S :
                 /\ d.santaUserId = last.userId
                 /\ last.out[1].receiverNumber = d.receiverNumber
                 /\ last.out[1].receiverWishlist = FixedProfiles[d.receiverUserId].wishlist

C12_Witness ==
  /\ last.op = "getAllAssignments"
  /\ Len(last.out) = 3
  /\ \E r \in RunIds :
       /\ runs[r].eventId = last.eventId
       /\ runs[r].pc = "inserted"
       /\ ObservedRows(last.out, last.eventId) # DocsOf(runs[r])

\* C13: in every reachable state, for each event that has assignment rows
\* the santas of its rows are exactly the users currently linked to the
\* event, each once.
C13_SantasAreParticipants ==
  \A e \in DOMAIN events :
    LET R == RowsOf(assignments, e)
    IN R # {} =>
         /\ {d.santaUserId : d \in R} = ParticipantsOf(users, e)
         /\ Cardinality(R) = Cardinality(ParticipantsOf(users, e))

\* C14: getUserAssignment(E, U) returns null when no row has eventId E and
\* santaUserId U, and a result exactly when such a row exists.
C14_NullWhenNoRow ==
  last.op = "getUserAssignment" =>
    LET exists == \E d \in assignments :
                    d.eventId = last.eventId /\ d.santaUserId = last.userId
    IN /\ ~exists => last.out = <<>>
       /\ exists => Len(last.out) = 1

C14_Witness ==
  /\ last.op = "getUserAssignment"
  /\ last.out = <<>>
  /\ RowsOf(assignments, last.eventId) # {}
  /\ \E d \in assignments : d.santaUserId = last.userId

\* C15: for two stores that differ only in the name, email or identifier of
\* the receiver, getUserAssignment and the getMyAssignment response give the
\* same santa the same result.
C15_ReceiverMasked ==
  last.op = "getMyAssignment" =>
    /\ last.result = last.result2
    /\ last.out = last.out2

C15_Witness ==
  /\ last.op = "getMyAssignment"
  /\ last.out.status = 200
  /\ last.other # last.receiver
  /\ last.profiles2[last.other].name # last.profiles[last.receiver].name
  /\ last.profiles2[last.other].email # last.profiles[last.receiver].email

\* C16: getAllAssignments(E) returns one record for every row of E, none of
\* another event, in strictly ascending order of receiverNumber.
C16_AllSorted ==
  last.op = "getAllAssignments" =>
    /\ Len(last.out) = Cardinality(RowsOf(assignments, last.eventId))
    /\ ObservedRows(last.out, last.eventId) = RowsOf(assignments, last.eventId)
    /\ \A i \in 1..(Len(last.out) - 1) :
         last.out[i].receiverNumber < last.out[i + 1].receiverNumber

C16_Witness ==
  /\ last.op = "getAllAssignments"
  /\ Len(last.out) = 3
  /\ last.out[1].santa.id = 3
  /\ Cardinality(assignments) = 6

\* C17: a step of a run for event E, the one that commits or fails it
\* included, leaves the rows and the document of every other event as they
\* were, also while a run for the other event is in flight.
C17_OtherEventsUnchanged ==
  [][\A r \in RunIds :
       runs'[r].pc # runs[r].pc =>
         \A e \in EventIds \ {runs'[r].eventId} :
           /\ RowsOf(assignments', e) = RowsOf(assignments, e)
           /\ events'[e] = events[e]]_vars

C17_Witness ==
  /\ runs[1].eventId = 1 /\ runs[1].pc = "saved"
  /\ runs[2].eventId = 2 /\ runs[2].pc = "done" /\ runs[2].error = "none"
  /\ last.op = "assignSecretSanta" /\ last.eventId = 2
  /\ Cardinality(RowsOf(assignments, 1)) = 3
  /\ Cardinality(RowsOf(assignments, 2)) = 2

\* C18: when a store operation of assignSecretSanta fails, the transaction
\* is aborted (the store is as before), the error that reaches the caller is
\* the error the failing step raised, and the session is ended.
C18_ErrorUnchanged ==
  [][(last'.op = "assignSecretSanta" /\ last'.raised = ErrStore)
     => /\ last'.error = last'.raised
        /\ last'.session = "ended"
        /\ assignments' = assignments
        /\ events' = events]_vars

\* C19: the fallback of generateDerangement returns the input rotated by
\* one position (the last element first, then every element after its
\* predecessor), and for every input of N >= 2 distinct elements that is a
\* permutation of the input with no element at its original index.
C19_FallbackRotation ==
  (last.op = "generateDerangement" /\ Len(last.array) >= 2) =>
    LET n == Len(last.array)
        result == IF last.out.path = "fallback" THEN last.out.result
                  ELSE CyclicShift(last.array)
    IN /\ Len(result) = n
       /\ result[1] = last.array[n]
       /\ \A i \in 2..n : result[i] = last.array[i - 1]
       /\ SeqToSet(result) = SeqToSet(last.array)
       /\ \A i \in 1..n : result[i] # last.array[i]

C19_Witness ==
  /\ last.op = "generateDerangement"
  /\ last.out.path = "fallback"
  /\ last.array = <<2, 3, 1>>
  /\ last.out.result = <<1, 2, 3>>

\* C20: for N >= 2 generateDerangement returns after at most maxAttempts
\* shuffles, and returns the cyclic-shift fallback only when it drew
\* maxAttempts shuffles of which none was a derangement.
C20_FallbackOnlyWhenExhausted ==
  (last.op = "generateDerangement" /\ Len(last.array) >= 2) =>
    /\ last.out.error = "none"
    /\ last.out.attempts <= MaxAttempts
    /\ last.out.path = "fallback" =>
         /\ last.out.attempts = MaxAttempts
         /\ \A k \in 1..MaxAttempts : ~NoElementAtOriginalIndex(DrawnShuffle(k))

\* C21: triggerAssignment on an event whose status is already 'assigned'
\* answers 400 without calling assignSecretSanta and leaves the rows and the
\* events as they were; for an identifier that matches no event it answers
\* 404 and changes nothing. When the handler's own lookup throws, the answer
\* is 500 and nothing changes either.
C21_GateRefuses ==
  [][last'.op = "triggerAssignment"
     => /\ (last'.eventId \notin DOMAIN events
            => /\ last'.status = IF last'.message = ErrStore THEN 500 ELSE 404
               /\ ~last'.called
               /\ assignments' = assignments
               /\ events' = events
               /\ users' = users)
        /\ ((last'.eventId \in DOMAIN events /\ events[last'.eventId].status = "assigned")
            => /\ last'.status = IF last'.message = ErrStore THEN 500 ELSE 400
               /\ last'.message \in {ErrStore, ErrAlreadyAssigned}
               /\ ~last'.called
               /\ assignments' = assignments
               /\ events' = events
               /\ users' = users)]_vars

C21_Witness ==
  /\ last.op = "triggerAssignment"
  /\ last.status = 400
  /\ last.eventId \in DOMAIN events
  /\ events[last.eventId].status = "assigned"
  /\ Cardinality(RowsOf(assignments, last.eventId)) = 3

\* C22: once a triggerAssignment request has committed an event's rows, no
\* step of another request, however the requests overlap, changes them: at
\* most one request commits a pairing.
C22_CommittedRowsStay ==
  [][\A e \in EventIds :
       CommittedRuns(e) # {} => RowsOf(assignments', e) = RowsOf(assignments, e)]_vars

\* C23: in every reachable state an event whose status is 'assigned' has a
\* complete assignment set: it has rows, one for each of its participants
\* as santa and none for anybody else.
C23_AssignedHasRows ==
  \A e \in DOMAIN events :
    events[e].status = "assigned"
      => /\ RowsOf(assignments, e) # {}
         /\ {d.santaUserId : d \in RowsOf(assignments, e)} = ParticipantsOf(users, e)
         /\ Cardinality(RowsOf(assignments, e)) = Cardinality(ParticipantsOf(users, e))
====
